---- MODULE Spec2Model ----
(***************************************************************************)
(* Model of src/streamlit_app.py: the "AI Multi-Image Exporter".           *)
(*                                                                         *)
(* The session state (extracted_data, files_to_process, status_message),   *)
(* the button callback process_images with the functions it calls          *)
(* (convert_to_base64_and_mime, call_gemini_api, parse_and_store_results)  *)
(* and the CSV export of the page script.  process_images is one callback; *)
(* it is split at the points where it talks to the outside world (reading  *)
(* a file, one HTTP request, one sleep, the return of call_gemini_api), so *)
(* that attempts and backoff delays are visible as states.                 *)
(*                                                                         *)
(* Texts are sequences of tokens: "bt" is one backtick, "json" the word    *)
(* json, "ws" one whitespace character, "[" "]" "," the JSON punctuation,  *)
(* "R1".."R7" JSON object literals, "x" a word of prose.                   *)
(* JSON values are pairs <<type, text>>; a dict is a sequence of           *)
(* <<key, value>> pairs in insertion order.                                *)
(***************************************************************************)
EXTENDS Integers, Sequences, FiniteSets, TLC

\* ------------------------------------------------------------------ bounds
\* Largest number of files one upload holds.
MaxFiles == 2

\* Longest response text, in tokens, of the texts enumerated for the parser.
MaxLen == 5

\* ------------------------------------------------------- program constants
\* Line 74: max_retries = 3.
max_retries == 3

\* ------------------------------------------------------------------- state
VARIABLES
    API_KEY,           \* line 25: the module constant API_KEY ("" = not set)
    files_to_process,  \* st.session_state.files_to_process
    extracted_data,    \* st.session_state.extracted_data (the CombinedResult)
    status_message,    \* st.session_state.status_message
    pc,                \* position of the process_images callback
    i,                 \* process_images: 1-based index of the current image
    error_count,       \* process_images: error_count
    base64_data,       \* process_images: base64_data of the current image
    attempt,           \* call_gemini_api: loop variable attempt
    last_error,        \* call_gemini_api: last_error
    result,            \* the envelope call_gemini_api returned
    exc,               \* the exception call_gemini_api raised
    outcomes,          \* history: outcome of each HTTP attempt of this call
    sleeps,            \* history: time.sleep delays of this call
    results,           \* history: one entry per image finished in this run
    requests,          \* history: number of HTTP requests sent in this run
    queue              \* history: the file list this run was started with

vars == <<API_KEY, files_to_process, extracted_data, status_message, pc, i,
          error_count, base64_data, attempt, last_error, result, exc, outcomes,
          sleeps, results, requests, queue>>

\* ------------------------------------------------------------ JSON values
Str(s) == <<"str", s>>
Num(s) == <<"num", s>>
Null == <<"null", "">>

\* The object literals a response text may hold.
RecordOf(tok) ==
    CASE tok = "R1" -> << <<"name", Str("Al")>>, <<"number", Num("42")>> >>
      [] tok = "R2" -> << <<"name", Str("Bo")>>, <<"number", Num("17")>> >>
      [] tok = "R3" -> << <<"score", Num("7")>>, <<"name", Str("Al")>> >>
      [] tok = "R4" -> << <<"name", Null>>, <<"number", Num("5")>> >>
      [] tok = "R5" -> << <<"name", Str(" ")>>, <<"number", Num("6")>> >>
      [] tok = "R6" -> << <<"number", Num("8")>> >>
      [] tok = "R7" -> << <<"name", Str("")>>, <<"number", Num("9")>> >>
      [] OTHER -> << >>

ObjectTokens == {"R1", "R2", "R3", "R4", "R5", "R6", "R7"}

\* --------------------------------------------------------------- sequences
RECURSIVE Flatten(_)
Flatten(ss) == IF ss = << >> THEN << >> ELSE Head(ss) \o Flatten(Tail(ss))

\* str.strip(): drop the whitespace at both ends.
RECURSIVE LStrip(_)
LStrip(s) == IF s # << >> /\ Head(s) = "ws" THEN LStrip(Tail(s)) ELSE s

RECURSIVE RStrip(_)
RStrip(s) ==
    IF s # << >> /\ s[Len(s)] = "ws" THEN RStrip(SubSeq(s, 1, Len(s) - 1)) ELSE s

Strip(s) == RStrip(LStrip(s))

\* str.replace(pat, ''): drop every non-overlapping occurrence, left to right.
RECURSIVE Remove(_, _)
Remove(s, pat) ==
    IF Len(s) < Len(pat) THEN s
    ELSE IF SubSeq(s, 1, Len(pat)) = pat
         THEN Remove(SubSeq(s, Len(pat) + 1, Len(s)), pat)
         ELSE <<Head(s)>> \o Remove(Tail(s), pat)

FenceJson == <<"bt", "bt", "bt", "json">>
Fence == <<"bt", "bt", "bt">>

\* Mutant: only the json fence is dropped, a bare fence stays.
Clean_jsononly(text) == Strip(Remove(Strip(text), FenceJson))

\* Line 106: strip, drop the json fences, drop the bare fences, strip.
Clean(text) == Strip(Remove(Remove(Strip(text), FenceJson), Fence))

\* ------------------------------------------------------------- json.loads
\* Whitespace between JSON tokens is insignificant.
NoWs(s) == SelectSeq(s, LAMBDA t : t # "ws")

\* value ("," value)*
RECURSIVE IsItems(_)
IsItems(s) ==
    /\ s # << >>
    /\ Head(s) \in ObjectTokens
    /\ \/ Len(s) = 1
       \/ Len(s) >= 3 /\ s[2] = "," /\ IsItems(SubSeq(s, 3, Len(s)))

RECURSIVE Items(_)
Items(s) ==
    IF s = << >> THEN << >>
    ELSE <<RecordOf(Head(s))>> \o Items(SubSeq(s, 3, Len(s)))

\* json.loads(text): ok = no JSONDecodeError, list = isinstance(data, list),
\* data = the elements of the list.
JsonLoads(s) ==
    LET t == NoWs(s)
        inner == SubSeq(t, 2, Len(t) - 1)
    IN  IF Len(t) = 1 /\ t[1] \in ObjectTokens
        THEN [ok |-> TRUE, list |-> FALSE, data |-> << >>]
        ELSE IF /\ Len(t) >= 2
                /\ t[1] = "["
                /\ t[Len(t)] = "]"
                /\ (inner = << >> \/ IsItems(inner))
             THEN [ok |-> TRUE, list |-> TRUE, data |-> Items(inner)]
             ELSE [ok |-> FALSE, list |-> FALSE, data |-> << >>]

\* ------------------------------------------------------ response envelopes
\* cand: the 'candidates' list is "present" (with a first candidate) or
\* "empty" ([]); hasText: the first part of the first candidate has 'text'.
Envelope(cand, hasText, text) ==
    [cand |-> cand, hasText |-> hasText, text |-> text]

NoEnvelope == Envelope("none", FALSE, << >>)

\* The response bodies the model lets the API return with status 200.
Envelopes ==
    { Envelope("present", TRUE, <<"[", "R1", ",", "ws", "R2", "]">>),
      Envelope("present", TRUE, <<"bt", "bt", "bt", "json", "ws", "[", "R1", "]",
                                  "ws", "bt", "bt", "bt">>),
      Envelope("present", TRUE, <<"[", "R3", "]">>),
      Envelope("present", TRUE, <<"x", "ws", "[", "R2", "]">>),
      Envelope("present", TRUE, <<"R2">>),
      Envelope("present", FALSE, << >>),
      Envelope("empty", FALSE, << >>) }

\* Line 102: result.get('candidates', [{}])[0] raises IndexError on [].
HasCandidate(env) == env.cand # "empty"

\* Line 103: ....get('text', '')
ResponseText(env) == IF env.hasText THEN env.text ELSE << >>

\* ------------------------------------------------------------- CSV export
Missing == <<"missing", "">>

RECURSIVE Get(_, _)
Get(rec, key) ==
    IF rec = << >> THEN Missing
    ELSE IF Head(rec)[1] = key THEN Head(rec)[2] ELSE Get(Tail(rec), key)

Contains(s, x) == \E k \in 1..Len(s) : s[k] = x

RECURSIVE AddKeys(_, _)
AddKeys(cols, rec) ==
    IF rec = << >> THEN cols
    ELSE AddKeys(IF Contains(cols, Head(rec)[1]) THEN cols
                 ELSE Append(cols, Head(rec)[1]), Tail(rec))

\* Line 209: pd.DataFrame(list of dicts): the columns are the keys of the
\* dicts, in order of first appearance.
RECURSIVE Columns(_)
Columns(data) ==
    IF data = << >> THEN << >>
    ELSE AddKeys(Columns(SubSeq(data, 1, Len(data) - 1)), data[Len(data)])

Absent(v) == v[1] \in {"missing", "null"}

\* A column whose values are numbers and holes is a float column.
FloatColumn(data, col) ==
    /\ \E r \in 1..Len(data) : Absent(Get(data[r], col))
    /\ \E r \in 1..Len(data) : Get(data[r], col)[1] = "num"
    /\ \A r \in 1..Len(data) : Get(data[r], col)[1] # "str"

\* One CSV field, as the pieces of its text.
Cell(data, r, col) ==
    LET v == Get(data[r], col)
    IN  IF Absent(v) THEN << >>
        ELSE IF v[1] = "num" /\ FloatColumn(data, col) THEN <<v[2], ".0">>
        ELSE <<v[2]>>

\* Line 213: df.to_csv(index=False): the header row, then a row per record.
to_csv(data) ==
    LET cols == Columns(data)
    IN  [header |-> cols,
         rows |-> [r \in 1..Len(data) |->
                     [c \in 1..Len(cols) |-> Cell(data, r, cols[c])]]]

\* Line 213: .encode('utf-8'): the bytes of the text, with no byte-order mark.
encode_utf8(text) == [bom |-> FALSE, text |-> text]

\* Lines 207-220: the download button is rendered, with csv_data as its
\* payload, when extracted_data is not empty.
ExportShown == extracted_data # << >>
csv_data == encode_utf8(to_csv(extracted_data))

\* ------------------------------------------------- call_gemini_api, pieces
\* An exception: its class and, for an HTTPError, the status code.
Exc(type, code) == [type |-> type, code |-> code]
NoExc == Exc("none", 0)

\* What one requests.post attempt can meet: a 200 with a JSON body, a 200
\* whose body is not JSON, a 4xx/5xx status, a connection failure.
Outcome(kind, code) == [kind |-> kind, code |-> code]
ErrorStatuses == {403, 429, 500}
AttemptOutcomes ==
    {Outcome("ok", 200), Outcome("badbody", 200), Outcome("net", 0)}
        \cup {Outcome("http", c) : c \in ErrorStatuses}

\* Lines 78-96: the exception an unsuccessful attempt leaves in e.
\* raise_for_status raises HTTPError; response.json() on a non-JSON body
\* raises requests.exceptions.JSONDecodeError, a RequestException; a
\* connection failure raises ConnectionError, a RequestException.
ErrorOf(o) ==
    CASE o.kind = "http" -> Exc("HTTPError", o.code)
      [] o.kind = "net" -> Exc("ConnectionError", 0)
      [] o.kind = "badbody" -> Exc("JSONDecodeError", 0)
      [] OTHER -> NoExc

\* Mutant: the 403 check is lost, a 403 is retried like any other status.
IsFatalStatus_never(code) == FALSE

\* Line 81: if response.status_code == 403
IsFatalStatus(code) == code = 403

\* Mutant: a fixed delay of one second, no exponential backoff.
Delay_fixed(a) == 1

\* Lines 87, 93: delay = 2 ** attempt
Delay(a) == 2 ^ a

\* Mutant: the guard is lost, the call sleeps after every failed attempt.
ShouldSleep_always(a) == TRUE

\* Lines 88, 94: if attempt < max_retries - 1
ShouldSleep(a) == a < max_retries - 1

\* Mutant: an off-by-one in the loop bound, one attempt too many.
InRange_more(a) == a <= max_retries

\* Line 75: for attempt in range(max_retries)
InRange(a) == a < max_retries

\* Line 51: if not api_key
KeyMissing(key) == key = ""

\* ------------------------------------------------- process_images, pieces
\* Mutant: the reset is lost, a run appends to what the last run left.
FreshData_keep(old) == old

\* Line 119: st.session_state.extracted_data = []
FreshData(old) == << >>

\* Mutant: records whose name is already in the data are dropped.
Extend_dedup(data, items) ==
    data \o SelectSeq(items, LAMBDA r :
                ~\E k \in 1..Len(data) : Get(data[k], "name") = Get(r, "name"))

\* Line 111: st.session_state.extracted_data.extend(data)
Extend(data, items) == data \o items

\* Mutant: no handler for PermissionError, it is a per-image error.
IsPermissionError_never(e) == FALSE

\* Mutant: the fatal handler catches every exception.
IsPermissionError_any(e) == TRUE

\* Line 143: except PermissionError
IsPermissionError(e) == e.type = "PermissionError"

\* Mutant: the check is lost, every image is sent to the API.
NoData_never(rd) == FALSE

\* Line 134: if not base64_data (an unreadable file gives None, an empty
\* file gives '').
NoData(rd) == rd # "bytes"

\* The status message, by kind: "ready" (line 21), "loaded" (line 182),
\* "nofiles" (line 123), "summary" (lines 155-157, 162).  The summary names
\* the failed images only when failed > 0.
Status(kind, n, total, success, failed) ==
    [kind |-> kind, n |-> n, total |-> total, success |-> success,
     failed |-> failed]

\* Lines 152-157: final_status.
final_status(data, files, ec) ==
    Status("summary", 0, Len(data), Len(files) - ec, ec)

\* One finished image in the history of the run.
\* out: how the image ended (an exception class, or the parse outcome);
\* returned: call_gemini_api returned result; failed: error_count was
\* incremented for it; msg: what st.error / st.warning showed for it.
Entry(out, returned, env, failed, msg) ==
    [out |-> out, returned |-> returned, result |-> env, failed |-> failed,
     msg |-> msg]

\* The entry e as the history keeps it: with the file it is about (line 129:
\* uploaded_file is files_to_process[i]).
Filed(e, file) ==
    [file |-> file, out |-> e.out, returned |-> e.returned,
     result |-> e.result, failed |-> e.failed, msg |-> e.msg]

\* The uploads a user can make: files 1..n.
Uploads == {[k \in 1..n |-> k] : n \in 1..MaxFiles}

\* What reading an uploaded file can give (lines 33-47).
ReadOutcomes == {"bytes", "empty", "raise"}

\* Lines 39-47: the base64_data convert_to_base64_and_mime returns: the
\* encoded bytes, '' for an empty file, None when reading raised.
Base64Of(rd) ==
    CASE rd = "bytes" -> "b64"
      [] rd = "empty" -> ""
      [] OTHER -> "None"

callVars == <<attempt, last_error, result, exc, outcomes, sleeps>>

ClearCall ==
    /\ attempt' = 0
    /\ last_error' = NoExc
    /\ result' = NoEnvelope
    /\ exc' = NoExc
    /\ outcomes' = << >>
    /\ sleeps' = << >>

\* -------------------------------------------------------------------- Init
Init ==
    /\ API_KEY \in {"", "AIza"}
    /\ files_to_process = << >>
    /\ extracted_data = << >>
    /\ status_message = Status("ready", 0, 0, 0, 0)
    /\ pc = "idle"
    /\ i = 0
    /\ error_count = 0
    /\ base64_data = "unset"
    /\ attempt = 0
    /\ last_error = NoExc
    /\ result = NoEnvelope
    /\ exc = NoExc
    /\ outcomes = << >>
    /\ sleeps = << >>
    /\ results = << >>
    /\ requests = 0
    /\ queue = << >>

\* ----------------------------------------------------------------- actions
\* Lines 172-182: a script run with a new, non-empty list of uploaded files.
Upload(fs) ==
    /\ pc = "idle"
    /\ fs # << >>
    /\ fs # files_to_process
    /\ files_to_process' = fs
    /\ status_message' = Status("loaded", Len(fs), 0, 0, 0)
    /\ UNCHANGED <<API_KEY, extracted_data, pc, i, error_count, base64_data,
                   callVars, results, requests, queue>>

\* Lines 192-198 and 119-129: a click on the button (enabled only when
\* files_to_process is not empty) enters process_images.
Click ==
    /\ pc = "idle"
    /\ files_to_process # << >>
    /\ extracted_data' = FreshData(extracted_data)
    /\ error_count' = 0
    /\ results' = << >>
    /\ requests' = 0
    /\ base64_data' = "unset"
    /\ queue' = files_to_process
    /\ ClearCall
    /\ IF files_to_process = << >>
       THEN /\ status_message' = Status("nofiles", 0, 0, 0, 0)
            /\ pc' = "idle"
            /\ i' = 0
       ELSE /\ status_message' = status_message
            /\ pc' = "convert"
            /\ i' = 1
    /\ UNCHANGED <<API_KEY, files_to_process>>

\* Mutant: the loop skips an image.
NextIndex_skip(k) == k + 2

\* Line 129: enumerate advances to the next image.
NextIndex(k) == k + 1

\* Lines 129, 151-162: the end of the loop body for image i with the entry e,
\* the data and the error count it leaves: the next image, or the summary.
EndImage(e, data, ec, b64) ==
    /\ results' = Append(results, Filed(e, files_to_process[i]))
    /\ extracted_data' = data
    /\ requests' = requests
    /\ IF i < Len(files_to_process)
       THEN /\ i' = NextIndex(i)
            /\ error_count' = ec
            /\ base64_data' = b64
            /\ pc' = "convert"
            /\ status_message' = status_message
       ELSE /\ i' = 0
            /\ error_count' = 0
            /\ base64_data' = "unset"
            /\ pc' = "idle"
            /\ status_message' = final_status(data, files_to_process, ec)

\* Lines 130-140 and 51-52: read image i; without data count it as failed
\* and go on; with data enter call_gemini_api, which raises ValueError at
\* once when the key is missing.
Convert ==
    /\ pc = "convert"
    /\ \E rd \in ReadOutcomes :
         IF NoData(rd)
         THEN /\ EndImage(Entry(IF rd = "raise" THEN "unreadable" ELSE "nobytes",
                                FALSE, NoEnvelope, TRUE,
                                IF rd = "raise" THEN "error" ELSE "none"),
                          extracted_data, error_count + 1, Base64Of(rd))
              /\ UNCHANGED callVars
         ELSE /\ IF KeyMissing(API_KEY)
                 THEN /\ pc' = "raised"
                      /\ exc' = Exc("ValueError", 0)
                 ELSE /\ pc' = "post"
                      /\ exc' = NoExc
              /\ attempt' = 0
              /\ last_error' = NoExc
              /\ result' = NoEnvelope
              /\ outcomes' = << >>
              /\ sleeps' = << >>
              /\ base64_data' = Base64Of(rd)
              /\ UNCHANGED <<extracted_data, status_message, i, error_count,
                             results, requests>>
    /\ UNCHANGED <<API_KEY, files_to_process, queue>>

\* Lines 75-96: what follows a failed attempt that left the error e: a sleep,
\* the next attempt, or (line 98) raise last_error.
AfterFailure(e) ==
    /\ last_error' = e
    /\ result' = NoEnvelope
    /\ IF ShouldSleep(attempt)
       THEN /\ pc' = "sleep"
            /\ attempt' = attempt
            /\ exc' = NoExc
       ELSE IF InRange(attempt + 1)
            THEN /\ pc' = "post"
                 /\ attempt' = attempt + 1
                 /\ exc' = NoExc
            ELSE /\ pc' = "raised"
                 /\ attempt' = attempt
                 /\ exc' = e

\* Lines 76-96: one attempt of the retry loop.
Post ==
    /\ pc = "post"
    /\ \E o \in AttemptOutcomes :
         /\ outcomes' = Append(outcomes, o)
         /\ requests' = requests + 1
         /\ IF o.kind = "ok"
            THEN \E env \in Envelopes :
                   /\ result' = env
                   /\ pc' = "returned"
                   /\ UNCHANGED <<attempt, last_error, exc>>
            ELSE IF o.kind = "http" /\ IsFatalStatus(o.code)
                 THEN /\ exc' = Exc("PermissionError", o.code)
                      /\ pc' = "raised"
                      /\ UNCHANGED <<attempt, last_error, result>>
                 ELSE AfterFailure(ErrorOf(o))
    /\ UNCHANGED <<API_KEY, files_to_process, extracted_data, status_message,
                   i, error_count, base64_data, sleeps, results, queue>>

\* Lines 90, 96: time.sleep(delay), then the next attempt or line 98.
Sleep ==
    /\ pc = "sleep"
    /\ sleeps' = Append(sleeps, Delay(attempt))
    /\ IF InRange(attempt + 1)
       THEN /\ pc' = "post"
            /\ attempt' = attempt + 1
            /\ exc' = NoExc
       ELSE /\ pc' = "raised"
            /\ attempt' = attempt
            /\ exc' = last_error
    /\ UNCHANGED <<API_KEY, files_to_process, extracted_data, status_message,
                   i, error_count, base64_data, last_error, result, outcomes,
                   results, requests, queue>>

\* Lines 100-115: parse_and_store_results(result), as the entry it leaves and
\* the data after it.  IndexError leaves the function; the two parse failures
\* are reported inside it.
ParseEntry(env) ==
    LET parsed == JsonLoads(Clean(ResponseText(env)))
    IN  IF ~HasCandidate(env) THEN Entry("IndexError", TRUE, env, TRUE, "error")
        ELSE IF parsed.ok /\ parsed.list
             THEN Entry("list", TRUE, env, FALSE, "none")
        ELSE IF parsed.ok THEN Entry("not_list", TRUE, env, FALSE, "warning")
        ELSE Entry("parse_error", TRUE, env, FALSE, "error")

\* Mutant: a response that is no JSON array empties the data.
ParseData_reset(env, data) ==
    LET parsed == JsonLoads(Clean(ResponseText(env)))
    IN  IF HasCandidate(env) /\ parsed.ok /\ parsed.list
        THEN Extend(data, parsed.data)
        ELSE << >>

ParseData(env, data) ==
    LET parsed == JsonLoads(Clean(ResponseText(env)))
    IN  IF HasCandidate(env) /\ parsed.ok /\ parsed.list
        THEN Extend(data, parsed.data)
        ELSE data

\* Lines 140-149: call_gemini_api has returned or raised.
Handle ==
    /\ pc \in {"returned", "raised"}
    /\ IF pc = "returned"
       THEN EndImage(ParseEntry(result), ParseData(result, extracted_data),
                     IF ParseEntry(result).failed THEN error_count + 1
                     ELSE error_count, base64_data)
       ELSE IF IsPermissionError(exc)
            THEN /\ results' = Append(results,
                                    Filed(Entry(exc.type, FALSE, NoEnvelope,
                                                FALSE, "error"),
                                          files_to_process[i]))
                 /\ pc' = "idle"
                 /\ i' = 0
                 /\ error_count' = 0
                 /\ base64_data' = "unset"
                 /\ UNCHANGED <<extracted_data, status_message, requests>>
            ELSE EndImage(Entry(exc.type, FALSE, NoEnvelope, TRUE, "error"),
                          extracted_data, error_count + 1, base64_data)
    /\ ClearCall
    /\ UNCHANGED <<API_KEY, files_to_process, queue>>

Next ==
    \/ \E fs \in Uploads : Upload(fs)
    \/ Click
    \/ Convert
    \/ Post
    \/ Sleep
    \/ Handle

Spec == Init /\ [][Next]_vars

\* ------------------------------------------------- reading the history
\* The records image e contributed: the elements of the JSON array its
\* response text held, none when it held no array or there was no response.
BatchOf(e) ==
    LET parsed == JsonLoads(Clean(ResponseText(e.result)))
    IN  IF e.returned /\ HasCandidate(e.result) /\ parsed.ok /\ parsed.list
        THEN parsed.data
        ELSE << >>

Batches(rs) == Flatten([k \in 1..Len(rs) |-> BatchOf(rs[k])])

Running == pc \in {"convert", "post", "sleep", "returned", "raised"}

\* The run ended by the return of line 146.
Aborted ==
    /\ pc = "idle"
    /\ results # << >>
    /\ results[Len(results)].out = "PermissionError"

\* The run ended by running off the end of the loop (lines 151-162).
Completed ==
    /\ pc = "idle"
    /\ results # << >>
    /\ results[Len(results)].out # "PermissionError"

\* The per-image errors: retries exhausted on HTTP errors, a network failure,
\* a malformed response (body, envelope or text).
PerImageErrors ==
    {"HTTPError", "ConnectionError", "JSONDecodeError", "IndexError",
     "parse_error", "not_list"}

Transient(o) == o.kind = "http" /\ o.code # 403

\* ------------------------------------------------------------------ claims

\* C1: a 403 on any attempt of call_gemini_api ends the call at once with
\* PermissionError: the 403 is the last attempt of the call, the call has
\* raised, and the only sleeps are the ones before that attempt.
C1_ForbiddenEndsCall ==
    \A k \in 1..Len(outcomes) :
        (outcomes[k].kind = "http" /\ outcomes[k].code = 403) =>
            /\ k = Len(outcomes)
            /\ pc = "raised"
            /\ exc = Exc("PermissionError", 403)
            /\ Len(sleeps) = k - 1

\* A 403 on the third attempt, after two retried failures.
C1_Witness ==
    /\ pc = "raised"
    /\ Len(outcomes) = 3
    /\ outcomes[3] = Outcome("http", 403)
    /\ exc.type = "PermissionError"
    /\ sleeps = <<1, 2>>

\* C2: while every attempt of a call gets a 4xx/5xx other than 403, the call
\* sleeps 1 s after attempt 0 and 2 s after attempt 1, makes exactly 3
\* attempts, does not sleep after the third and raises the third's error.
C2_ThreeAttemptsBackoff ==
    (outcomes # << >> /\ \A k \in 1..Len(outcomes) : Transient(outcomes[k])) =>
        /\ sleeps = SubSeq(<<1, 2>>, 1, Len(sleeps))
        /\ pc \in {"sleep", "post", "raised"}
        /\ pc = "sleep" => Len(outcomes) < 3 /\ Len(sleeps) = Len(outcomes) - 1
        /\ pc = "post" => Len(outcomes) < 3 /\ Len(sleeps) = Len(outcomes)
        /\ pc = "raised" =>
              /\ Len(outcomes) = 3
              /\ sleeps = <<1, 2>>
              /\ exc = Exc("HTTPError", outcomes[3].code)

\* Three 500s in a row: the call has raised the HTTPError of the third.
C2_Witness ==
    /\ pc = "raised"
    /\ outcomes = <<Outcome("http", 500), Outcome("http", 500),
                    Outcome("http", 500)>>
    /\ exc = Exc("HTTPError", 500)
    /\ sleeps = <<1, 2>>

\* C3: with the API key missing, call_gemini_api fails before any HTTP
\* request, and the failure is fatal like a 403: the run stops at that image
\* and the image is not counted as a per-image failure.
C3_MissingKeyAborts ==
    /\ (pc = "raised" /\ exc.type = "ValueError") => outcomes = << >>
    /\ \A k \in 1..Len(results) :
          results[k].out = "ValueError" =>
              /\ k = Len(results)
              /\ pc = "idle"
              /\ ~results[k].failed

\* C4: when image k fails with the fatal auth error (PermissionError),
\* process_images has returned: image k is the last one touched, and
\* extracted_data is exactly the records of the images before k.
C4_AuthErrorAborts ==
    \A k \in 1..Len(results) :
        results[k].out = "PermissionError" =>
            /\ k = Len(results)
            /\ pc = "idle"
            /\ extracted_data = Batches(SubSeq(results, 1, k - 1))

\* The second image of two got a 403 after the first contributed records.
C4_Witness ==
    /\ Aborted
    /\ Len(queue) = 2
    /\ Len(results) = 2
    /\ results[1].out = "list"
    /\ extracted_data # << >>

\* C5: a per-image error on image k does not stop the run: the next image is
\* begun, the run ends only on its last image (or by a later fatal auth
\* error), and the records of the images before k stay in extracted_data.
C5_PerImageErrorContinues ==
    \A k \in 1..Len(results) :
        results[k].out \in PerImageErrors =>
            /\ k < Len(queue) => Len(results) > k \/ (Running /\ i = k + 1)
            /\ Completed => Len(results) = Len(queue)
            /\ BatchOf(results[k]) = << >>
            /\ Len(extracted_data) >= Len(Batches(SubSeq(results, 1, k - 1)))
            /\ SubSeq(extracted_data, 1, Len(Batches(SubSeq(results, 1, k - 1))))
                  = Batches(SubSeq(results, 1, k - 1))

\* Image 1 exhausted its retries on HTTP errors; image 2 was still processed
\* and its records are in extracted_data.
C5_Witness ==
    /\ Completed
    /\ Len(results) = 2
    /\ results[1].out = "HTTPError"
    /\ results[2].out = "list"
    /\ extracted_data # << >>

\* C6: after a run that was not aborted, every image of the upload has been
\* handled in upload order and extracted_data is the concatenation, in that
\* order, of the arrays parsed from the responses; nothing is sorted,
\* deduplicated or merged.
C6_ConcatInUploadOrder ==
    Completed =>
        /\ Len(results) = Len(queue)
        /\ \A k \in 1..Len(results) : results[k].file = queue[k]
        /\ extracted_data = Batches(results)

\* Two images each gave a record named "Al": both are kept, in order.
C6_Witness ==
    /\ Completed
    /\ Len(results) = 2
    /\ extracted_data = <<RecordOf("R1"), RecordOf("R2"), RecordOf("R1")>>

\* C7: after a run that ran to its end, the summary gives the number of
\* records, the successful and the failed images; the two counts sum to the
\* number of images, and every image with a per-image error is counted as
\* failed.
C7_SummaryCountsFailures ==
    (Completed /\ status_message.kind = "summary") =>
        /\ status_message.total = Len(extracted_data)
        /\ status_message.success + status_message.failed = Len(queue)
        /\ status_message.failed >=
              Cardinality({k \in 1..Len(results) :
                              results[k].out \in PerImageErrors})

\* C8: extracted_data holds the records of the current (most recent) run
\* only: process_images empties it on entry, whatever the run then does.
C8_ResetEachRun ==
    extracted_data = Batches(results)

\* A second run has begun after a run that left records: the data is empty
\* while the status still shows the summary of the earlier run.
C8_Witness ==
    /\ pc = "convert"
    /\ i = 1
    /\ status_message.kind = "summary"
    /\ status_message.total > 0
    /\ extracted_data = << >>

\* C9: an image whose successful response has no text part contributes no
\* records, is not counted as failed, and no error is shown for it.
C9_NoTextIsSilent ==
    \A k \in 1..Len(results) :
        (/\ results[k].returned
         /\ HasCandidate(results[k].result)
         /\ ~results[k].result.hasText) =>
            /\ BatchOf(results[k]) = << >>
            /\ ~results[k].failed
            /\ results[k].msg = "none"

\* C10: the exported CSV has the header Name, Number, whatever the keys of
\* the response objects, and one row per record in order.
C10_CsvHeaderNameNumber ==
    (pc = "idle" /\ ExportShown) =>
        /\ csv_data.text.header = <<"Name", "Number">>
        /\ Len(csv_data.text.rows) = Len(extracted_data)

\* --------------------------------------------- the parser on arbitrary text
\* A second specification: call_gemini_api has just returned, for the only
\* image of a run, an envelope with an arbitrary text; the one step is the
\* rest of the loop body (parse_and_store_results and the summary).
TextTokens == {"bt", "json", "ws", "[", "]", "R1", "R4"}

ShortTexts == UNION {[1..n -> TextTokens] : n \in 0..MaxLen}

\* Bare JSON arrays, and each as the model is asked not to send it:
\* fenced with the json fence, a newline each side, and the closing fence.
ArrayTexts ==
    { <<"[", "]">>,
      <<"[", "R1", "]">>,
      <<"[", "R1", ",", "ws", "R2", "]">>,
      <<"[", "R5", ",", "R6", ",", "R7", "]">> }

Wrap(a) == FenceJson \o <<"ws">> \o a \o <<"ws">> \o Fence

\* Longer texts in which dropping one literal brings backticks together.
FenceTexts ==
    { <<"bt", "bt", "bt", "bt", "bt", "json", "bt">>,
      <<"bt", "bt", "bt", "bt", "json", "bt", "bt", "json">>,
      <<"ws", "bt", "bt", "bt", "bt", "bt", "bt", "bt", "ws", "[", "]">> }

Texts ==
    ShortTexts \cup ArrayTexts \cup {Wrap(a) : a \in ArrayTexts} \cup FenceTexts

InitParse ==
    /\ API_KEY = "AIza"
    /\ files_to_process = <<1>>
    /\ queue = <<1>>
    /\ extracted_data = << >>
    /\ status_message = Status("loaded", 1, 0, 0, 0)
    /\ pc = "returned"
    /\ i = 1
    /\ error_count = 0
    /\ base64_data = "b64"
    /\ attempt = 0
    /\ last_error = NoExc
    /\ \E t \in Texts : result = Envelope("present", TRUE, t)
    /\ exc = NoExc
    /\ outcomes = <<Outcome("ok", 200)>>
    /\ sleeps = << >>
    /\ results = << >>
    /\ requests = 1

NextParse == Handle

SpecParse == InitParse /\ [][NextParse]_vars

\* str.strip() of a name: the whitespace-only name becomes empty.
Trim(name) == IF name = " " THEN "" ELSE name

\* The Record invariant of a record: a name that is a non-empty string
\* after trimming.
NameOk(rec) ==
    /\ Get(rec, "name")[1] = "str"
    /\ Trim(Get(rec, "name")[2]) # ""

\* C11: every record in extracted_data has a name that is present and
\* non-empty after trimming, whatever array the response held.
C11_NamesNonEmpty ==
    \A r \in 1..Len(extracted_data) : NameOk(extracted_data[r])

\* The cleaned response text of env parses to a JSON array.
IsArray(env) ==
    LET parsed == JsonLoads(Clean(ResponseText(env)))
    IN  parsed.ok /\ parsed.list

Last(s) == s[Len(s)]

\* C12: when the response text is not parsable as JSON, or is JSON but no
\* array, handling the response reports it for the image (st.error or
\* st.warning) and leaves extracted_data exactly as it was.
C12_MalformedAddsNothing ==
    [][(pc = "returned" /\ HasCandidate(result) /\ ~IsArray(result)) =>
          /\ extracted_data' = extracted_data
          /\ Len(results') = Len(results) + 1
          /\ Last(results').file = queue[i]
          /\ Last(results').out \in {"parse_error", "not_list"}
          /\ Last(results').msg \in {"error", "warning"}]_vars

\* Image 2 gave unparsable text after image 1 gave records: the records of
\* image 1 are all there is.
C12_Witness ==
    /\ Len(results) = 2
    /\ results[2].out = "parse_error"
    /\ results[2].msg = "error"
    /\ extracted_data # << >>
    /\ extracted_data = BatchOf(results[1])

\* C13: the exported CSV bytes begin with a UTF-8 byte-order mark.
C13_CsvStartsWithBom ==
    (pc = "idle" /\ ExportShown) => csv_data.bom

\* C14: images are processed one at a time in upload order: while image i is
\* in work every earlier image has finished (its entry and its records are
\* in) and no later one has begun, so every request is for image i; and a
\* backoff sleep changes nothing but the call's own position.
C14_OneImageAtATime ==
    /\ [](/\ Running => i \in 1..Len(queue) /\ Len(results) = i - 1
          /\ \A k \in 1..Len(results) : results[k].file = queue[k]
          /\ (pc \in {"post", "sleep"} \/ outcomes # << >>) => Running
          /\ Running => extracted_data = Batches(results))
    /\ [][pc = "sleep" =>
            /\ pc' \in {"post", "raised"}
            /\ i' = i
            /\ results' = results
            /\ extracted_data' = extracted_data
            /\ requests' = requests]_vars
    /\ [][requests' # requests =>
            \/ requests' = 0
            \/ pc = "post" /\ i' = i /\ results' = results]_vars

\* Image 2 is in a backoff sleep; image 1 is finished, nothing else moves.
C14_Witness ==
    /\ pc = "sleep"
    /\ i = 2
    /\ Len(queue) = 2
    /\ Len(results) = 1
    /\ sleeps = <<1>>

\* C16: call_gemini_api makes at most 3 attempts and stops at the first
\* successful one: a success is the last attempt of its call, the call has
\* returned the response, the sleeps before it are 2^0 .. 2^(k-1), and no
\* error of an earlier attempt is raised.
C16_StopsAtFirstSuccess ==
    /\ Len(outcomes) <= 3
    /\ \A k \in 1..Len(outcomes) :
          outcomes[k].kind = "ok" => k = Len(outcomes) /\ pc = "returned"
    /\ pc = "returned" =>
          /\ outcomes # << >>
          /\ Last(outcomes).kind = "ok"
          /\ sleeps = [j \in 1..(Len(outcomes) - 1) |-> 2 ^ (j - 1)]
          /\ result \in Envelopes
          /\ exc = NoExc

\* The first success came on the third attempt, after sleeps of 1 s and 2 s.
C16_Witness ==
    /\ pc = "returned"
    /\ Len(outcomes) = 3
    /\ outcomes[1].kind # "ok"
    /\ outcomes[2].kind # "ok"
    /\ sleeps = <<1, 2>>
    /\ result \in Envelopes

\* The steps a run can still take, at most: 9 for each image not yet begun,
\* and for image i what is left of read, 3 requests, 2 sleeps and handler.
Rank ==
    IF ~Running THEN 0
    ELSE 9 * (Len(queue) - i) +
         (CASE pc = "convert" -> 8
            [] pc = "post" -> 7 - 2 * attempt
            [] pc = "sleep" -> 6 - 2 * attempt
            [] OTHER -> 1)

\* C17: every run of process_images over n images ends, after at most 3
\* requests for any one image and at most 3 * n requests in all.  Ending is
\* stated as: each step of a run in progress lowers the number of steps that
\* are left, which is never negative; no state of a run is without a next
\* step (the specification has no deadlock), so the run reaches its end.
C17_RunTerminates ==
    /\ [](/\ Len(outcomes) <= 3
          /\ requests <= 3 * Len(queue)
          /\ Running => requests <= 3 * (i - 1) + Len(outcomes)
          /\ Rank >= 0)
    /\ [][Running => Rank' < Rank]_vars

\* A run of two images that used all six requests has ended.
C17_Witness ==
    /\ pc = "idle"
    /\ Len(queue) = 2
    /\ Len(results) = 2
    /\ requests = 6

\* s holds pat as a contiguous part.
HasSub(s, pat) ==
    \E k \in 1..(Len(s) - Len(pat) + 1) : SubSeq(s, k, k + Len(pat) - 1) = pat

\* C15: the cleaned text of any response holds no fence (so neither literal
\* is left at any position) and no whitespace at its ends, cleaning it again
\* changes nothing, and an array wrapped in a json fence gives the records
\* of the bare array.
C15_FenceCleaning ==
    /\ pc = "returned" =>
          LET c == Clean(ResponseText(result))
          IN  /\ ~HasSub(c, Fence)
              /\ Strip(c) = c
              /\ Clean(c) = c
    /\ \A a \in ArrayTexts :
          (results # << >> /\ results[1].result.text \in {a, Wrap(a)}) =>
              /\ results[1].out = "list"
              /\ extracted_data = JsonLoads(a).data

\* The fenced array [R1] was parsed to the one record R1.
C15_Witness ==
    /\ results # << >>
    /\ results[1].result.text = Wrap(<<"[", "R1", "]">>)
    /\ results[1].out = "list"
    /\ extracted_data = <<RecordOf("R1")>>

\* C18: a run aborted by the fatal auth error writes no status message: from
\* the click to the abort status_message stays what it was before the run,
\* while extracted_data was emptied by the click and holds what this run
\* appended.
C18_AbortKeepsStatus ==
    /\ [][(pc = "idle" /\ Running') =>
             status_message' = status_message /\ extracted_data' = << >>]_vars
    /\ [][(Running /\ Running') => status_message' = status_message]_vars
    /\ [][(Running /\ Aborted') =>
             /\ status_message' = status_message
             /\ extracted_data' = extracted_data
             /\ extracted_data = Batches(results)]_vars

\* After an abort the status is still the summary of an earlier run, whose
\* record count is not that of the data now shown.
C18_Witness ==
    /\ Aborted
    /\ status_message.kind = "summary"
    /\ extracted_data # << >>
    /\ status_message.total # Len(extracted_data)

\* C19: an image whose file cannot be read, or has no bytes, is counted as
\* failed, no request is sent for it, extracted_data is unchanged and the
\* loop goes on with the next image (or the summary).
C19_UnreadableFileSkipped ==
    /\ [](pc \in {"post", "sleep", "returned", "raised"} => base64_data = "b64")
    /\ [][(pc = "convert" /\ pc' \in {"convert", "idle"}) =>
             /\ Len(results') = Len(results) + 1
             /\ Last(results').file = queue[i]
             /\ Last(results').out \in {"unreadable", "nobytes"}
             /\ Last(results').failed
             /\ requests' = requests
             /\ extracted_data' = extracted_data
             /\ IF i < Len(queue)
                THEN /\ pc' = "convert"
                     /\ i' = i + 1
                     /\ error_count' = error_count + 1
                ELSE /\ pc' = "idle"
                     /\ status_message' =
                           final_status(extracted_data, queue, error_count + 1)]_vars

\* The first file of two had no bytes: it is the one failed image of the
\* summary, and the second image gave its records.
C19_Witness ==
    /\ Completed
    /\ Len(results) = 2
    /\ results[1].out = "nobytes"
    /\ results[2].out = "list"
    /\ status_message.kind = "summary"
    /\ status_message.failed = 1
    /\ requests >= 1

====
